---- MODULE Spec2Model ----
(***************************************************************************)
(* ReadWriteMutex and RecursiveReadWriteMutex (src/ReadWriteMutex.cpp).    *)
(*                                                                         *)
(* Every access to a std::mutex, a std::atomic or the condition variable   *)
(* is one step of the calling thread.  The wrapper's thread_local          *)
(* counters are private to the thread, so the wrapper's own statements are *)
(* folded into the step that calls or returns from the base lock.          *)
(*                                                                         *)
(* Three drivers use the lock:                                             *)
(*   SpecBase  threads call ReadWriteMutex directly (src/unnamed/part_001),*)
(*   SpecRec   threads call RecursiveReadWriteMutex in properly nested     *)
(*             brackets (src/ReadWriteMutex.cpp, WritingFunc and main),    *)
(*   SpecB     the two threads th4 and th5 of main.                        *)
(* In SpecBase and SpecRec a thread goes on calling for ever; FairSpecBase *)
(* and FairSpecRec bound the number of lock calls and run the threads      *)
(* under a fair scheduler.                                                 *)
(***************************************************************************)
EXTENDS Integers, Sequences, FiniteSets, TLC

\* Number of threads that use ReadWriteMutex directly (SpecBase).
BaseThreads == 3
\* Number of threads that use RecursiveReadWriteMutex (SpecRec).
RecThreads == 2
\* Deepest nesting of brackets a thread opens on RecursiveReadWriteMutex.
MaxDepth == 2
\* Number of threads in the specifications with finite thread functions
\* (FairSpecBase, FairSpecRec).
FairThreads == 2
\* Lock calls (ReadLock or WriteLock) one thread of FairSpecBase makes.
MaxCalls == 1
\* Lock calls (ReadLock or WriteLock) the threads of FairSpecRec make in all.
MaxRecCalls == 4
\* Lock calls (ReadLock or WriteLock) the threads of InCallFairSpecBase make in all.
MaxBaseCalls == 3
\* Iterations of the loops of ReadingFunc and WritingFunc (1000 in the code).
Iterations == 1
\* Unlock calls without a matching lock one thread of SpecMisuse makes.
MaxMisuse == 1
\* MutexValidator objects that exist at a time, and default constructions in all.
\* Lock calls a thread makes when it opens and closes brackets in any order.
MaxAnyOrderCalls == 2
\* Lock calls one thread makes on two RecursiveReadWriteMutex objects.
MaxInstanceCalls == 4
MaxObjects == 3
MaxBlocks == 2
\* Threads of the ThreadCrossWalk demo that run a Road function, and threads
\* that run Pedestrian.
Cars == 2
Pedestrians == 2

VARIABLES
    pc,                          \* per thread: "idle" or the statement it is about to run
    op,                          \* per thread: the call in progress ("none" between calls)
    WriteMutex,                  \* owner of ReadWriteMutex::WriteMutex, 0 when free
    ReadMutex,                   \* owner of ReadWriteMutex::ReadMutex, 0 when free
    ReadCounter,                 \* ReadWriteMutex::ReadCounter
    IsCondVarWaiting,            \* ReadWriteMutex::IsCondVarWaiting
    cvWaiters,                   \* threads blocked inside Cv.wait
    LocalThreadReadLockCounter,  \* thread_local, per thread
    LocalThreadWriteLockCounter, \* thread_local, per thread
    stack,                       \* per thread: the brackets it has open, oldest first
    calls,                       \* per thread: lock calls made so far, where the thread function is finite
    prog,                        \* per thread: the calls a thread with a fixed program has still to make
    holders,                     \* history: threads counted in ReadCounter
    ahead,                       \* history, per ReadLock call: writers that had called WriteLock when it started
    aheadGate,                   \* history, per ReadLock call: writers that owned WriteMutex when it started
    downgraded,                  \* history: threads whose WriteUnlock re-took the read lock, until their read depth is 0
    Vec,                         \* std::vector<int> Vec of the demo
    inVec,                       \* per thread: << >>, or <<v>> while it is inside emplace_back or the
                                 \* range-for, v being the Vec it read when it started
    crashed,                     \* the process has been ended by a fault
    objects,                     \* MutexValidator objects: per slot, alive or not, the members Mtx,
                                 \* Counter, IsValid (the block they point to, 0 for none) and IsOriginal
    blocks,                      \* what the default constructors have allocated: per block, "unused",
                                 \* "live" or "freed", *Counter and *IsValid
    parentOf,                    \* history, per block: the object that constructed it, 0 once destroyed
    usedAfterFree,               \* history: blocks whose mutex has been unlocked after its delete
    version,                     \* which ThreadCrossWalk is compiled: "CrossWalk.cpp" or "part_002"
    Wk,                          \* ThreadCrossWalk Wk: its members (a mutex is its owner or 0, Cv is
                                 \* the set of threads blocked in Cv.wait)
    walk,                        \* per thread of the crossing demo: where it is
    behind,                      \* history, per CarStartCrossRoad call: pedestrians that owned Mtx when it started
    Rwmxs,                       \* per RecursiveReadWriteMutex object used by one thread: its member Rwmx
                                 \* (WriteMutex is 1 when the thread owns it; holder is history: the
                                 \* thread has incremented ReadCounter and not decremented it since)
    nest,                        \* per object: the brackets the thread has open on it, innermost last
    where                        \* where that thread is: "idle" between calls, "wl_blocked" in Cv.wait,
                                 \* "deadlock" in the lock() of a mutex it owns

vars == <<pc, op, WriteMutex, ReadMutex, ReadCounter, IsCondVarWaiting, cvWaiters,
          LocalThreadReadLockCounter, LocalThreadWriteLockCounter, stack, calls, prog,
          holders, ahead, aheadGate, downgraded, Vec, inVec, crashed,
          objects, blocks, parentOf, usedAfterFree, version, Wk, walk, behind, Rwmxs, nest, where>>

baseVars == <<WriteMutex, ReadMutex, ReadCounter, IsCondVarWaiting, cvWaiters>>
localVars == <<LocalThreadReadLockCounter, LocalThreadWriteLockCounter>>
callerVars == <<stack, calls, prog>>
historyVars == <<ahead, aheadGate, downgraded>>
demoVars == <<Vec, inVec, crashed>>
validatorVars == <<objects, blocks, parentOf, usedAfterFree>>
crossWalkVars == <<version, Wk, walk, behind>>
instanceVars == <<Rwmxs, nest, where>>
\* RecursiveReadWriteMutex objects: the global Rrwmx and main's local rrwx.
Instances == {"Rrwmx", "rrwx"}
\* What no method of the two locks touches.
nonLockVars == <<demoVars, validatorVars, crossWalkVars, instanceVars>>
\* What only the methods of the two locks and their callers touch.
lockVars == <<pc, op, baseVars, localVars, callerVars, holders, historyVars>>

Threads == DOMAIN pc

\* std::size_t arithmetic is modulo 2^64.  A value is kept as the representative
\* of its residue nearest to 0 (2^64 - 1 is kept as -1); the code only
\* increments, decrements and compares with 0 and 1, which this keeps exact.
SizeInc(x) == x + 1
SizeDec(x) == x - 1
SizeGtZero(x) == x # 0

\* Statements of ReadWriteMutex::WriteLock; a thread at one of them from
\* "wl_set" on owns WriteMutex.
WriteLockPcs == {"wl_gate", "wl_set", "wl_load", "wl_wait", "wl_blocked", "wl_clear"}
GatePcs == WriteLockPcs \ {"wl_gate"}

\* The thread moves to statement l of the same call.
Goto(t, l) ==
    /\ pc' = [pc EXCEPT ![t] = l]
    /\ UNCHANGED <<op, localVars, downgraded>>

\* The rest of RecursiveReadWriteMutex::ReadLock once Rwmx.ReadLock() has returned.
RecursiveReadLock_Return(t) ==
    /\ pc' = [pc EXCEPT ![t] = "idle"]
    /\ op' = [op EXCEPT ![t] = "none"]
    /\ LocalThreadReadLockCounter' =
          [LocalThreadReadLockCounter EXCEPT ![t] = SizeInc(@)]
    /\ UNCHANGED <<LocalThreadWriteLockCounter, downgraded>>

\* The rest of RecursiveReadWriteMutex::ReadUnlock once Rwmx.ReadUnlock() has returned.
RecursiveReadUnlock_Return(t) ==
    /\ pc' = [pc EXCEPT ![t] = "idle"]
    /\ op' = [op EXCEPT ![t] = "none"]
    /\ LocalThreadReadLockCounter' =
          [LocalThreadReadLockCounter EXCEPT ![t] = SizeDec(@)]
    /\ downgraded' = IF SizeDec(LocalThreadReadLockCounter[t]) = 0
                     THEN downgraded \ {t} ELSE downgraded
    /\ UNCHANGED LocalThreadWriteLockCounter

\* The rest of RecursiveReadWriteMutex::WriteLock once Rwmx.ReadUnlock() (then
\* Rwmx.WriteLock() is next) or Rwmx.WriteLock() has returned.
RecursiveWriteLock_Return(t, fn) ==
    IF fn = "ReadUnlock"
    THEN /\ pc' = [pc EXCEPT ![t] = "wl_gate"]
         /\ UNCHANGED <<op, localVars, downgraded>>
    ELSE /\ pc' = [pc EXCEPT ![t] = "idle"]
         /\ op' = [op EXCEPT ![t] = "none"]
         /\ LocalThreadWriteLockCounter' =
               [LocalThreadWriteLockCounter EXCEPT ![t] = SizeInc(@)]
         /\ UNCHANGED <<LocalThreadReadLockCounter, downgraded>>

\* Mutant: WriteUnlock does not take the read lock again.
RecursiveWriteUnlock_Return_NoReadLock(t, fn) ==
    /\ pc' = [pc EXCEPT ![t] = "idle"]
    /\ op' = [op EXCEPT ![t] = "none"]
    /\ LocalThreadWriteLockCounter' =
          [LocalThreadWriteLockCounter EXCEPT ![t] = SizeDec(@)]
    /\ UNCHANGED <<LocalThreadReadLockCounter, downgraded>>

\* The rest of RecursiveReadWriteMutex::WriteUnlock once Rwmx.WriteUnlock() (then
\* Rwmx.ReadLock() is next when the read counter is > 0) or Rwmx.ReadLock() has
\* returned.
RecursiveWriteUnlock_Return(t, fn) ==
    IF fn = "WriteUnlock" /\ SizeGtZero(LocalThreadReadLockCounter[t])
    THEN /\ pc' = [pc EXCEPT ![t] = "rl_gate"]
         /\ UNCHANGED <<op, localVars, downgraded>>
    ELSE /\ pc' = [pc EXCEPT ![t] = "idle"]
         /\ op' = [op EXCEPT ![t] = "none"]
         /\ LocalThreadWriteLockCounter' =
               [LocalThreadWriteLockCounter EXCEPT ![t] = SizeDec(@)]
         /\ downgraded' = IF fn = "ReadLock" THEN downgraded \cup {t} ELSE downgraded
         /\ UNCHANGED LocalThreadReadLockCounter

\* The method fn of ReadWriteMutex returns to its caller: to the thread
\* function (op "direct") or into the wrapper method in progress.
Return(t, fn) ==
    CASE op[t] = "direct" ->
            /\ pc' = [pc EXCEPT ![t] = "idle"]
            /\ op' = [op EXCEPT ![t] = "none"]
            /\ UNCHANGED <<localVars, downgraded>>
      [] op[t] = "ReadLock" -> RecursiveReadLock_Return(t)
      [] op[t] = "ReadUnlock" -> RecursiveReadUnlock_Return(t)
      [] op[t] = "WriteLock" -> RecursiveWriteLock_Return(t, fn)
      [] op[t] = "WriteUnlock" -> RecursiveWriteUnlock_Return(t, fn)

----------------------------------------------------------------------------
\* ReadWriteMutex::ReadLock

\* Mutant: ReadLock does not take the gate.
rl_gate_NoGate(t) ==
    /\ pc[t] = "rl_gate"
    /\ Goto(t, "rl_rm")
    /\ UNCHANGED <<baseVars, callerVars, holders, ahead, aheadGate>>

\* WriteMutex.lock()
rl_gate(t) ==
    /\ pc[t] = "rl_gate"
    /\ WriteMutex = 0
    /\ WriteMutex' = t
    /\ Goto(t, "rl_rm")
    /\ UNCHANGED <<ReadMutex, ReadCounter, IsCondVarWaiting, cvWaiters,
                   callerVars, holders, ahead, aheadGate>>

\* Mutant: ReadLock goes on to the increment without locking ReadMutex.
rl_rm_NoLock(t) ==
    /\ pc[t] = "rl_rm"
    /\ Goto(t, "rl_inc")
    /\ UNCHANGED <<baseVars, callerVars, holders, ahead, aheadGate>>

\* ReadMutex.lock()
rl_rm(t) ==
    /\ pc[t] = "rl_rm"
    /\ ReadMutex = 0
    /\ ReadMutex' = t
    /\ Goto(t, "rl_inc")
    /\ UNCHANGED <<WriteMutex, ReadCounter, IsCondVarWaiting, cvWaiters,
                   callerVars, holders, ahead, aheadGate>>

\* ReadCounter.fetch_add(1)
rl_inc(t) ==
    /\ pc[t] = "rl_inc"
    /\ ReadCounter' = ReadCounter + 1
    /\ holders' = holders \cup {t}
    /\ Goto(t, "rl_rmu")
    /\ UNCHANGED <<WriteMutex, ReadMutex, IsCondVarWaiting, cvWaiters,
                   callerVars, ahead, aheadGate>>

\* ReadMutex.unlock()
rl_rmu(t) ==
    /\ pc[t] = "rl_rmu"
    /\ ReadMutex' = 0
    /\ Goto(t, "rl_gu")
    /\ UNCHANGED <<WriteMutex, ReadCounter, IsCondVarWaiting, cvWaiters,
                   callerVars, holders, ahead, aheadGate>>

\* Mutant: ReadLock returns with the gate still locked.
rl_gu_KeepGate(t) ==
    /\ pc[t] = "rl_gu"
    /\ Return(t, "ReadLock")
    /\ UNCHANGED <<baseVars, callerVars, holders, ahead, aheadGate>>

\* WriteMutex.unlock(), and ReadLock returns
rl_gu(t) ==
    /\ pc[t] = "rl_gu"
    /\ WriteMutex' = 0
    /\ Return(t, "ReadLock")
    /\ UNCHANGED <<ReadMutex, ReadCounter, IsCondVarWaiting, cvWaiters,
                   callerVars, holders, ahead, aheadGate>>

----------------------------------------------------------------------------
\* ReadWriteMutex::ReadUnlock

\* ReadMutex.lock()
ru_rm(t) ==
    /\ pc[t] = "ru_rm"
    /\ ReadMutex = 0
    /\ ReadMutex' = t
    /\ Goto(t, "ru_dec")
    /\ UNCHANGED <<WriteMutex, ReadCounter, IsCondVarWaiting, cvWaiters,
                   callerVars, holders, ahead, aheadGate>>

\* ReadCounter.fetch_sub(1)
ru_dec(t) ==
    /\ pc[t] = "ru_dec"
    /\ ReadCounter' = ReadCounter - 1
    /\ holders' = holders \ {t}
    /\ Goto(t, "ru_load")
    /\ UNCHANGED <<WriteMutex, ReadMutex, IsCondVarWaiting, cvWaiters,
                   callerVars, ahead, aheadGate>>

\* if (ReadCounter.load() == 0)
ru_load(t) ==
    /\ pc[t] = "ru_load"
    /\ Goto(t, IF ReadCounter = 0 THEN "ru_loop" ELSE "ru_rmu")
    /\ UNCHANGED <<baseVars, callerVars, holders, ahead, aheadGate>>

\* while (IsCondVarWaiting.load())
ru_loop(t) ==
    /\ pc[t] = "ru_loop"
    /\ Goto(t, IF IsCondVarWaiting THEN "ru_notify" ELSE "ru_rmu")
    /\ UNCHANGED <<baseVars, callerVars, holders, ahead, aheadGate>>

\* Mutant: one notify_all instead of the loop.
ru_notify_Once(t) ==
    /\ pc[t] = "ru_notify"
    /\ cvWaiters' = {}
    /\ Goto(t, "ru_rmu")
    /\ UNCHANGED <<WriteMutex, ReadMutex, ReadCounter, IsCondVarWaiting,
                   callerVars, holders, ahead, aheadGate>>

\* Cv.notify_all(): wakes the threads blocked in Cv.wait at this moment
ru_notify(t) ==
    /\ pc[t] = "ru_notify"
    /\ cvWaiters' = {}
    /\ Goto(t, "ru_loop")
    /\ UNCHANGED <<WriteMutex, ReadMutex, ReadCounter, IsCondVarWaiting,
                   callerVars, holders, ahead, aheadGate>>

\* ReadMutex.unlock(), and ReadUnlock returns
ru_rmu(t) ==
    /\ pc[t] = "ru_rmu"
    /\ ReadMutex' = 0
    /\ Return(t, "ReadUnlock")
    /\ UNCHANGED <<WriteMutex, ReadCounter, IsCondVarWaiting, cvWaiters,
                   callerVars, holders, ahead, aheadGate>>

----------------------------------------------------------------------------
\* ReadWriteMutex::WriteLock (the local mutex mtx is private to the call)

\* Mutant: WriteLock does not wait for the gate to be free.
wl_gate_NoWait(t) ==
    /\ pc[t] = "wl_gate"
    /\ WriteMutex' = t
    /\ Goto(t, "wl_set")
    /\ UNCHANGED <<ReadMutex, ReadCounter, IsCondVarWaiting, cvWaiters,
                   callerVars, holders, ahead, aheadGate>>

\* WriteMutex.lock()
wl_gate(t) ==
    /\ pc[t] = "wl_gate"
    /\ WriteMutex = 0
    /\ WriteMutex' = t
    /\ Goto(t, "wl_set")
    /\ UNCHANGED <<ReadMutex, ReadCounter, IsCondVarWaiting, cvWaiters,
                   callerVars, holders, ahead, aheadGate>>

\* IsCondVarWaiting.store(true)
wl_set(t) ==
    /\ pc[t] = "wl_set"
    /\ IsCondVarWaiting' = TRUE
    /\ Goto(t, "wl_load")
    /\ UNCHANGED <<WriteMutex, ReadMutex, ReadCounter, cvWaiters,
                   callerVars, holders, ahead, aheadGate>>

\* if (ReadCounter.load() > 0)
wl_load(t) ==
    /\ pc[t] = "wl_load"
    /\ Goto(t, IF ReadCounter > 0 THEN "wl_wait" ELSE "wl_clear")
    /\ UNCHANGED <<baseVars, callerVars, holders, ahead, aheadGate>>

\* Cv.wait(lk): the thread starts to wait
wl_wait(t) ==
    /\ pc[t] = "wl_wait"
    /\ cvWaiters' = cvWaiters \cup {t}
    /\ Goto(t, "wl_blocked")
    /\ UNCHANGED <<WriteMutex, ReadMutex, ReadCounter, IsCondVarWaiting,
                   callerVars, holders, ahead, aheadGate>>

\* Cv.wait(lk) returns once the thread has been woken
wl_wake(t) ==
    /\ pc[t] = "wl_blocked"
    /\ t \notin cvWaiters
    /\ Goto(t, "wl_clear")
    /\ UNCHANGED <<baseVars, callerVars, holders, ahead, aheadGate>>

\* Cv.wait(lk) has no predicate: std::condition_variable::wait may also be
\* woken spuriously, without any notify.
SpuriousWakeup(t) ==
    /\ pc[t] = "wl_blocked"
    /\ t \in cvWaiters
    /\ cvWaiters' = cvWaiters \ {t}
    /\ UNCHANGED <<pc, op, localVars, downgraded, WriteMutex, ReadMutex, ReadCounter,
                   IsCondVarWaiting, callerVars, holders, ahead, aheadGate>>

\* Mutant: the gate is released when WriteLock returns.
wl_clear_ReleaseGate(t) ==
    /\ pc[t] = "wl_clear"
    /\ IsCondVarWaiting' = FALSE
    /\ WriteMutex' = 0
    /\ Return(t, "WriteLock")
    /\ UNCHANGED <<ReadMutex, ReadCounter, cvWaiters,
                   callerVars, holders, ahead, aheadGate>>

\* IsCondVarWaiting.store(false), and WriteLock returns
wl_clear(t) ==
    /\ pc[t] = "wl_clear"
    /\ IsCondVarWaiting' = FALSE
    /\ Return(t, "WriteLock")
    /\ UNCHANGED <<WriteMutex, ReadMutex, ReadCounter, cvWaiters,
                   callerVars, holders, ahead, aheadGate>>

----------------------------------------------------------------------------
\* ReadWriteMutex::WriteUnlock

\* WriteMutex.unlock(), and WriteUnlock returns
wu_gu(t) ==
    /\ pc[t] = "wu_gu"
    /\ WriteMutex' = 0
    /\ ahead' = [x \in Threads |-> ahead[x] \ {t}]
    /\ aheadGate' = [x \in Threads |-> aheadGate[x] \ {t}]
    /\ Return(t, "WriteUnlock")
    /\ UNCHANGED <<ReadMutex, ReadCounter, IsCondVarWaiting, cvWaiters,
                   callerVars, holders>>

----------------------------------------------------------------------------
\* Where a thread is in its own code, told from the brackets it has open.

Top(s) == s[Len(s)]
Pop(s) == SubSeq(s, 1, Len(s) - 1)

\* t is between calls with a write section open: between the return of
\* WriteLock and its WriteUnlock.
InWrite(t) == pc[t] = "idle" /\ \E i \in 1..Len(stack[t]) : stack[t][i] = "W"
\* t is between calls with read sections open only: between the return of
\* ReadLock and its ReadUnlock.
InRead(t) == pc[t] = "idle" /\ stack[t] # << >> /\ ~InWrite(t)
\* w has called WriteLock and its WriteUnlock has not released the gate yet.
CalledWriteLock(w) == pc[w] \in WriteLockPcs \cup {"wu_gu"} \/ InWrite(w)
\* w has acquired the gate in WriteLock and its WriteUnlock has not released it yet.
HoldsGate(w) == pc[w] \in GatePcs \cup {"wu_gu"} \/ InWrite(w)

----------------------------------------------------------------------------
\* Direct use of ReadWriteMutex: each thread runs read sections and write
\* sections one after the other, as ReadingFunc and WritingFunc do.

DirectReadLock(t) ==
    /\ pc[t] = "idle" /\ stack[t] = << >>
    /\ pc' = [pc EXCEPT ![t] = "rl_gate"]
    /\ op' = [op EXCEPT ![t] = "direct"]
    /\ stack' = [stack EXCEPT ![t] = <<"R">>]
    /\ ahead' = [ahead EXCEPT ![t] = {w \in Threads \ {t} : CalledWriteLock(w)}]
    /\ aheadGate' = [aheadGate EXCEPT ![t] = {w \in Threads \ {t} : HoldsGate(w)}]
    /\ UNCHANGED <<baseVars, localVars, prog, holders, downgraded>>

DirectReadUnlock(t) ==
    /\ InRead(t)
    /\ pc' = [pc EXCEPT ![t] = "ru_rm"]
    /\ op' = [op EXCEPT ![t] = "direct"]
    /\ stack' = [stack EXCEPT ![t] = << >>]
    /\ ahead' = [ahead EXCEPT ![t] = {}]
    /\ aheadGate' = [aheadGate EXCEPT ![t] = {}]
    /\ UNCHANGED <<baseVars, localVars, calls, prog, holders, downgraded>>

DirectWriteLock(t) ==
    /\ pc[t] = "idle" /\ stack[t] = << >>
    /\ pc' = [pc EXCEPT ![t] = "wl_gate"]
    /\ op' = [op EXCEPT ![t] = "direct"]
    /\ stack' = [stack EXCEPT ![t] = <<"W">>]
    /\ UNCHANGED <<baseVars, localVars, prog, holders, historyVars>>

DirectWriteUnlock(t) ==
    /\ InWrite(t)
    /\ pc' = [pc EXCEPT ![t] = "wu_gu"]
    /\ op' = [op EXCEPT ![t] = "direct"]
    /\ stack' = [stack EXCEPT ![t] = << >>]
    /\ UNCHANGED <<baseVars, localVars, calls, prog, holders, historyVars>>

----------------------------------------------------------------------------
\* RecursiveReadWriteMutex.  A call that reaches no method of Rwmx is one
\* step; a call that does starts at the first statement of that method, and
\* Return runs the rest of the wrapper method.

\* Mutant: ReadLock forwards to Rwmx whatever the counters are.
RecursiveReadLock_AlwaysForward(t) ==
    /\ pc' = [pc EXCEPT ![t] = "rl_gate"]
    /\ op' = [op EXCEPT ![t] = "ReadLock"]
    /\ UNCHANGED localVars
    /\ UNCHANGED <<baseVars, holders, historyVars>>

\* Mutant: ReadLock does not look at the write counter.
RecursiveReadLock_IgnoreWrite(t) ==
    /\ IF LocalThreadReadLockCounter[t] = 0
       THEN /\ pc' = [pc EXCEPT ![t] = "rl_gate"]
            /\ op' = [op EXCEPT ![t] = "ReadLock"]
            /\ UNCHANGED localVars
       ELSE /\ LocalThreadReadLockCounter' =
                  [LocalThreadReadLockCounter EXCEPT ![t] = SizeInc(@)]
            /\ UNCHANGED <<pc, op, LocalThreadWriteLockCounter>>
    /\ UNCHANGED <<baseVars, holders, historyVars>>

\* RecursiveReadWriteMutex::ReadLock, up to its call of Rwmx.ReadLock()
RecursiveReadLock(t) ==
    /\ IF LocalThreadWriteLockCounter[t] = 0
       THEN IF LocalThreadReadLockCounter[t] = 0
            THEN /\ pc' = [pc EXCEPT ![t] = "rl_gate"]
                 /\ op' = [op EXCEPT ![t] = "ReadLock"]
                 /\ UNCHANGED localVars
            ELSE /\ LocalThreadReadLockCounter' =
                       [LocalThreadReadLockCounter EXCEPT ![t] = SizeInc(@)]
                 /\ UNCHANGED <<pc, op, LocalThreadWriteLockCounter>>
       ELSE UNCHANGED <<pc, op, localVars>>
    /\ UNCHANGED <<baseVars, holders, historyVars>>

\* Mutant: ReadUnlock forwards to Rwmx at every depth.
RecursiveReadUnlock_AlwaysForward(t) ==
    /\ IF LocalThreadWriteLockCounter[t] = 0
       THEN /\ pc' = [pc EXCEPT ![t] = "ru_rm"]
            /\ op' = [op EXCEPT ![t] = "ReadUnlock"]
            /\ UNCHANGED localVars
       ELSE UNCHANGED <<pc, op, localVars>>
    /\ UNCHANGED <<baseVars, holders, historyVars>>

\* RecursiveReadWriteMutex::ReadUnlock, up to its call of Rwmx.ReadUnlock()
RecursiveReadUnlock(t) ==
    /\ IF LocalThreadWriteLockCounter[t] = 0
       THEN IF LocalThreadReadLockCounter[t] = 1
            THEN /\ pc' = [pc EXCEPT ![t] = "ru_rm"]
                 /\ op' = [op EXCEPT ![t] = "ReadUnlock"]
                 /\ UNCHANGED localVars
            ELSE /\ LocalThreadReadLockCounter' =
                       [LocalThreadReadLockCounter EXCEPT ![t] = SizeDec(@)]
                 /\ UNCHANGED <<pc, op, LocalThreadWriteLockCounter>>
       ELSE UNCHANGED <<pc, op, localVars>>
    /\ UNCHANGED <<baseVars, holders, historyVars>>

\* Mutant: an upgrading WriteLock goes for the gate with the shared hold kept.
RecursiveWriteLock_KeepShared(t) ==
    /\ IF LocalThreadWriteLockCounter[t] = 0
       THEN /\ pc' = [pc EXCEPT ![t] = "wl_gate"]
            /\ op' = [op EXCEPT ![t] = "WriteLock"]
            /\ UNCHANGED localVars
       ELSE /\ LocalThreadWriteLockCounter' =
                  [LocalThreadWriteLockCounter EXCEPT ![t] = SizeInc(@)]
            /\ UNCHANGED <<pc, op, LocalThreadReadLockCounter>>
    /\ UNCHANGED <<baseVars, holders, historyVars>>

\* RecursiveReadWriteMutex::WriteLock, up to its first call of a method of Rwmx
RecursiveWriteLock(t) ==
    /\ IF LocalThreadWriteLockCounter[t] = 0
       THEN /\ pc' = [pc EXCEPT ![t] =
                        IF SizeGtZero(LocalThreadReadLockCounter[t])
                        THEN "ru_rm" ELSE "wl_gate"]
            /\ op' = [op EXCEPT ![t] = "WriteLock"]
            /\ UNCHANGED localVars
       ELSE /\ LocalThreadWriteLockCounter' =
                  [LocalThreadWriteLockCounter EXCEPT ![t] = SizeInc(@)]
            /\ UNCHANGED <<pc, op, LocalThreadReadLockCounter>>
    /\ UNCHANGED <<baseVars, holders, historyVars>>

\* RecursiveReadWriteMutex::WriteUnlock, up to its call of Rwmx.WriteUnlock()
RecursiveWriteUnlock(t) ==
    /\ IF LocalThreadWriteLockCounter[t] = 1
       THEN /\ pc' = [pc EXCEPT ![t] = "wu_gu"]
            /\ op' = [op EXCEPT ![t] = "WriteUnlock"]
            /\ UNCHANGED localVars
       ELSE /\ LocalThreadWriteLockCounter' =
                  [LocalThreadWriteLockCounter EXCEPT ![t] = SizeDec(@)]
            /\ UNCHANGED <<pc, op, LocalThreadReadLockCounter>>
    /\ UNCHANGED <<baseVars, holders, historyVars>>

----------------------------------------------------------------------------
\* Callers of RecursiveReadWriteMutex that open and close brackets in properly
\* nested (LIFO) order, choosing each call freely: ReadLock and WriteLock in
\* any nesting, each unlock the one of the innermost open bracket.

LifoReadLock(t) ==
    /\ pc[t] = "idle"
    /\ Len(stack[t]) < MaxDepth
    /\ stack' = [stack EXCEPT ![t] = Append(@, "R")]
    /\ UNCHANGED prog
    /\ RecursiveReadLock(t)

LifoReadUnlock(t) ==
    /\ pc[t] = "idle"
    /\ stack[t] # << >> /\ Top(stack[t]) = "R"
    /\ stack' = [stack EXCEPT ![t] = Pop(@)]
    /\ UNCHANGED <<calls, prog>>
    /\ RecursiveReadUnlock(t)

LifoWriteLock(t) ==
    /\ pc[t] = "idle"
    /\ Len(stack[t]) < MaxDepth
    /\ stack' = [stack EXCEPT ![t] = Append(@, "W")]
    /\ UNCHANGED prog
    /\ RecursiveWriteLock(t)

LifoWriteUnlock(t) ==
    /\ pc[t] = "idle"
    /\ stack[t] # << >> /\ Top(stack[t]) = "W"
    /\ stack' = [stack EXCEPT ![t] = Pop(@)]
    /\ UNCHANGED <<calls, prog>>
    /\ RecursiveWriteUnlock(t)

\* The thread function is a loop that never ends: a lock call is always in reach.
Unbounded == UNCHANGED calls

\* The thread function makes max lock calls: this is one of them.
Budget(t, max) ==
    /\ calls[t] < max
    /\ calls' = [calls EXCEPT ![t] = @ + 1]

RECURSIVE CallsMade(_)
CallsMade(n) == IF n = 0 THEN 0 ELSE calls[n] + CallsMade(n - 1)

\* The thread functions make max lock calls between them: this is one of them.
SharedBudget(t, max) ==
    /\ CallsMade(Len(calls)) < max
    /\ calls' = [calls EXCEPT ![t] = @ + 1]

----------------------------------------------------------------------------
\* Callers that also unlock what they have not locked: ReadUnlock with both
\* counters 0, WriteUnlock with write counter 0.  No bracket is closed.

MisuseReadUnlock(t) ==
    /\ pc[t] = "idle"
    /\ LocalThreadReadLockCounter[t] = 0 /\ LocalThreadWriteLockCounter[t] = 0
    /\ Budget(t, MaxMisuse)
    /\ UNCHANGED <<stack, prog>>
    /\ RecursiveReadUnlock(t)

MisuseWriteUnlock(t) ==
    /\ pc[t] = "idle"
    /\ LocalThreadWriteLockCounter[t] = 0
    /\ Budget(t, MaxMisuse)
    /\ UNCHANGED <<stack, prog>>
    /\ RecursiveWriteUnlock(t)

----------------------------------------------------------------------------
\* Callers that close their brackets in any order: an unlock needs an open
\* bracket of its kind, not the innermost one, and closes the last opened of
\* its kind.

IsOpen(s, k) == \E i \in 1..Len(s) : s[i] = k

\* s without its last k
RemoveLast(s, k) ==
    LET i == CHOOSE j \in 1..Len(s) : s[j] = k /\ \A m \in (j + 1)..Len(s) : s[m] # k
    IN  SubSeq(s, 1, i - 1) \o SubSeq(s, i + 1, Len(s))

AnyOrderReadUnlock(t) ==
    /\ pc[t] = "idle"
    /\ IsOpen(stack[t], "R")
    /\ stack' = [stack EXCEPT ![t] = RemoveLast(@, "R")]
    /\ UNCHANGED <<calls, prog>>
    /\ RecursiveReadUnlock(t)

AnyOrderWriteUnlock(t) ==
    /\ pc[t] = "idle"
    /\ IsOpen(stack[t], "W")
    /\ stack' = [stack EXCEPT ![t] = RemoveLast(@, "W")]
    /\ UNCHANGED <<calls, prog>>
    /\ RecursiveWriteUnlock(t)

----------------------------------------------------------------------------
\* The threads th4 and th5 of main: each makes the calls of its lambda in order.

Th4Program == <<"ReadLock", "WriteLock", "WriteUnlock", "ReadUnlock">>
Th5Program == <<"WriteLock", "WriteUnlock">>

\* Thread t is between calls and its next call is m.
NextCallIs(t, m) ==
    /\ pc[t] = "idle"
    /\ prog[t] # << >> /\ Head(prog[t]) = m
    /\ prog' = [prog EXCEPT ![t] = Tail(@)]

ProgReadLock(t) ==
    /\ NextCallIs(t, "ReadLock")
    /\ stack' = [stack EXCEPT ![t] = Append(@, "R")]
    /\ UNCHANGED calls
    /\ RecursiveReadLock(t)

ProgReadUnlock(t) ==
    /\ NextCallIs(t, "ReadUnlock")
    /\ stack' = [stack EXCEPT ![t] = Pop(@)]
    /\ UNCHANGED calls
    /\ RecursiveReadUnlock(t)

ProgWriteLock(t) ==
    /\ NextCallIs(t, "WriteLock")
    /\ stack' = [stack EXCEPT ![t] = Append(@, "W")]
    /\ UNCHANGED calls
    /\ RecursiveWriteLock(t)

ProgWriteUnlock(t) ==
    /\ NextCallIs(t, "WriteUnlock")
    /\ stack' = [stack EXCEPT ![t] = Pop(@)]
    /\ UNCHANGED calls
    /\ RecursiveWriteUnlock(t)

----------------------------------------------------------------------------
\* The demo of main: th1 and th2 run WritingFunc, th3 runs ReadingFunc, on the
\* global Rrwmx and Vec.  (The demo of src/unnamed/part_001 is the same with
\* WriteLock and WriteUnlock alone around emplace_back.)

RECURSIVE Repeat(_, _)
Repeat(s, k) == IF k = 0 THEN << >> ELSE s \o Repeat(s, k - 1)

WritingFuncProgram ==
    Repeat(<<"ReadLock", "WriteLock", "emplace_back", "WriteUnlock", "ReadUnlock">>,
           Iterations)
ReadingFuncProgram == Repeat(<<"ReadLock", "range_for", "ReadUnlock">>, Iterations)

\* The threads that run WritingFunc.
Writers == {1, 2}

\* The loop variable i of WritingFunc in thread t: the emplace_back calls it
\* has completed.
LoopIndex(t) ==
    Iterations - Cardinality({k \in 1..Len(prog[t]) : prog[t][k] = "emplace_back"})

\* Thread t is between calls and its next statement is m on Vec.
NextStatementIs(t, m) == pc[t] = "idle" /\ prog[t] # << >> /\ Head(prog[t]) = m

\* Thread t starts or ends an access to Vec while another thread is inside
\* one, and one of the two is emplace_back: a data race.
DataRace(t) ==
    \E u \in Threads \ {t} :
        inVec[u] # << >> /\ "emplace_back" \in {Head(prog[t]), Head(prog[u])}

\* What a data race on a std::vector can do: nothing that shows, or a fault
\* (an iterator of the buffer that emplace_back has freed, a begin and an end
\* of different buffers).
Fault(t) == crashed' \in (IF DataRace(t) THEN BOOLEAN ELSE {FALSE})

\* Vec.emplace_back(i) is not atomic: it reads the end of the vector ...
emplace_back_read(t) ==
    /\ NextStatementIs(t, "emplace_back") /\ inVec[t] = << >>
    /\ inVec' = [inVec EXCEPT ![t] = <<Vec>>]
    /\ Fault(t)
    /\ UNCHANGED <<pc, op, baseVars, localVars, callerVars, holders, historyVars, Vec>>

\* ... and then stores the element and the new end.
emplace_back_write(t) ==
    /\ NextStatementIs(t, "emplace_back") /\ inVec[t] # << >>
    /\ Vec' = Append(inVec[t][1], LoopIndex(t))
    /\ inVec' = [inVec EXCEPT ![t] = << >>]
    /\ prog' = [prog EXCEPT ![t] = Tail(@)]
    /\ Fault(t)
    /\ UNCHANGED <<pc, op, baseVars, localVars, stack, calls, holders, historyVars>>

\* for (const auto& it : Vec): takes begin and end ...
range_for_begin(t) ==
    /\ NextStatementIs(t, "range_for") /\ inVec[t] = << >>
    /\ inVec' = [inVec EXCEPT ![t] = <<Vec>>]
    /\ Fault(t)
    /\ UNCHANGED <<pc, op, baseVars, localVars, callerVars, holders, historyVars, Vec>>

\* ... and has added up the elements between them.
range_for_end(t) ==
    /\ NextStatementIs(t, "range_for") /\ inVec[t] # << >>
    /\ inVec' = [inVec EXCEPT ![t] = << >>]
    /\ prog' = [prog EXCEPT ![t] = Tail(@)]
    /\ Fault(t)
    /\ UNCHANGED <<pc, op, baseVars, localVars, stack, calls, holders, historyVars, Vec>>

----------------------------------------------------------------------------
\* MutexValidator (src/unnamed/part_000), used by one thread as in its main.
\* Each special member function is one step.

\* delete Mtx; delete Counter; delete IsValid; followed by Mtx->unlock() on
\* the mutex just deleted: undefined, it does nothing that shows or it faults.
UnlockAfterDelete(freed) == crashed' \in (IF freed THEN BOOLEAN ELSE {FALSE})

\* --*Counter; if (*Counter == 0) { delete ... } on block b
Release(bs, b) ==
    [bs EXCEPT ![b].Counter = @ - 1,
               ![b].state = IF bs[b].Counter - 1 = 0 THEN "freed" ELSE @]

\* MutexValidator()
MutexValidator_Default(h) ==
    /\ ~objects[h].alive
    /\ \E b \in 1..MaxBlocks :
        /\ blocks[b].state = "unused"
        /\ \A c \in 1..(b - 1) : blocks[c].state # "unused"
        /\ blocks' = [blocks EXCEPT ![b] = [state |-> "live", Counter |-> 1, IsValid |-> TRUE]]
        /\ objects' = [objects EXCEPT ![h] =
                          [alive |-> TRUE, Mtx |-> b, Counter |-> b, IsValid |-> b,
                           IsOriginal |-> TRUE]]
        /\ parentOf' = [parentOf EXCEPT ![b] = h]
    /\ UNCHANGED <<crashed, usedAfterFree>>

\* MutexValidator(const MutexValidator& other)
MutexValidator_Copy(h, other) ==
    /\ ~objects[h].alive /\ objects[other].alive
    /\ objects' = [objects EXCEPT ![h] =
                      [alive |-> TRUE, Mtx |-> objects[other].Mtx,
                       Counter |-> objects[other].Counter,
                       IsValid |-> objects[other].IsValid, IsOriginal |-> FALSE]]
    /\ blocks' = [blocks EXCEPT ![objects[other].Counter].Counter = @ + 1]
    /\ UNCHANGED <<parentOf, crashed, usedAfterFree>>

\* operator=(const MutexValidator& other), this != &other
MutexValidator_Assign(h, other) ==
    /\ objects[h].alive /\ objects[other].alive /\ h # other
    /\ LET cleared == Release(blocks, objects[h].Counter)
       IN /\ blocks' = [cleared EXCEPT ![objects[other].Counter].Counter = @ + 1]
          /\ UnlockAfterDelete(cleared[objects[h].Counter].state = "freed")
          /\ usedAfterFree' = usedAfterFree \cup
                 (IF cleared[objects[h].Counter].state = "freed" THEN {objects[h].Mtx} ELSE {})
    /\ objects' = [objects EXCEPT ![h] =
                      [alive |-> TRUE, Mtx |-> objects[other].Mtx,
                       Counter |-> objects[other].Counter,
                       IsValid |-> objects[other].IsValid, IsOriginal |-> FALSE]]
    /\ UNCHANGED parentOf

\* ~MutexValidator()
MutexValidator_Destroy(h) ==
    /\ objects[h].alive
    /\ LET marked == IF objects[h].IsOriginal
                     THEN [blocks EXCEPT ![objects[h].IsValid].IsValid = FALSE]
                     ELSE blocks
           released == Release(marked, objects[h].Counter)
       IN /\ blocks' = released
          /\ UnlockAfterDelete(released[objects[h].Counter].state = "freed")
          /\ usedAfterFree' = usedAfterFree \cup
                 (IF released[objects[h].Counter].state = "freed" THEN {objects[h].Mtx} ELSE {})
    /\ objects' = [objects EXCEPT ![h].alive = FALSE]
    /\ parentOf' = [b \in DOMAIN parentOf |-> IF parentOf[b] = h THEN 0 ELSE parentOf[b]]

\* GetIsValid() of a live object, between Lock() and Unlock()
GetIsValid(h) == blocks[objects[h].IsValid].IsValid

----------------------------------------------------------------------------
\* Specifications

\* ReadWriteMutex() (ReadCounter 0, IsCondVarWaiting false), thread_local
\* counters 0, and threads 1..n that have made no call yet; programs gives
\* each thread its fixed sequence of calls, << >> for a thread that chooses
\* its calls as it goes.
InitObjects(n, programs) ==
    /\ pc = [t \in 1..n |-> "idle"]
    /\ op = [t \in 1..n |-> "none"]
    /\ WriteMutex = 0
    /\ ReadMutex = 0
    /\ ReadCounter = 0
    /\ IsCondVarWaiting = FALSE
    /\ cvWaiters = {}
    /\ LocalThreadReadLockCounter = [t \in 1..n |-> 0]
    /\ LocalThreadWriteLockCounter = [t \in 1..n |-> 0]
    /\ stack = [t \in 1..n |-> << >>]
    /\ calls = [t \in 1..n |-> 0]
    /\ prog = programs
    /\ holders = {}
    /\ ahead = [t \in 1..n |-> {}]
    /\ aheadGate = [t \in 1..n |-> {}]
    /\ downgraded = {}
    /\ Vec = << >>
    /\ inVec = [t \in 1..n |-> << >>]
    /\ crashed = FALSE
    /\ objects = [h \in 1..MaxObjects |->
                    [alive |-> FALSE, Mtx |-> 0, Counter |-> 0, IsValid |-> 0,
                     IsOriginal |-> FALSE]]
    /\ blocks = [b \in 1..MaxBlocks |-> [state |-> "unused", Counter |-> 0, IsValid |-> FALSE]]
    /\ parentOf = [b \in 1..MaxBlocks |-> 0]
    /\ usedAfterFree = {}
    /\ Wk = [Mtx |-> 0, RoadMtx |-> 0, RoadCounter |-> 0, IsCondVarWaiting |-> FALSE,
             Cv |-> {}, AtomicCounter |-> 0]
    /\ walk = [t \in 1..(Cars + Pedestrians) |-> "idle"]
    /\ behind = [t \in 1..(Cars + Pedestrians) |-> {}]
    /\ Rwmxs = [i \in Instances |->
                  [WriteMutex |-> 0, ReadCounter |-> 0, IsCondVarWaiting |-> FALSE,
                   holder |-> FALSE]]
    /\ nest = [i \in Instances |-> << >>]
    /\ where = "idle"

InitFor(n, programs) == InitObjects(n, programs) /\ version = "CrossWalk.cpp"

NoPrograms(n) == [t \in 1..n |-> << >>]
InitBase == InitFor(BaseThreads, NoPrograms(BaseThreads))
InitRec == InitFor(RecThreads, NoPrograms(RecThreads))
InitFair == InitFor(FairThreads, NoPrograms(FairThreads))
InitB == InitFor(2, <<Th4Program, Th5Program>>)
InitA == InitFor(3, <<WritingFuncProgram, WritingFuncProgram, ReadingFuncProgram>>)

\* One step of thread t inside a method of ReadWriteMutex.
BaseStep(t) ==
    \/ rl_gate(t) \/ rl_rm(t) \/ rl_inc(t) \/ rl_rmu(t) \/ rl_gu(t)
    \/ ru_rm(t) \/ ru_dec(t) \/ ru_load(t) \/ ru_loop(t) \/ ru_notify(t) \/ ru_rmu(t)
    \/ wl_gate(t) \/ wl_set(t) \/ wl_load(t) \/ wl_wait(t) \/ wl_wake(t) \/ wl_clear(t)
    \/ wu_gu(t)

\* One call of a thread of a program that makes up to MaxRecCalls lock calls
\* on RecursiveReadWriteMutex.
FiniteLifoCall(t) ==
    \/ LifoReadLock(t) /\ SharedBudget(t, MaxRecCalls)
    \/ LifoReadUnlock(t)
    \/ LifoWriteLock(t) /\ SharedBudget(t, MaxRecCalls)
    \/ LifoWriteUnlock(t)

NextBase ==
    /\ UNCHANGED nonLockVars
    /\ \E t \in Threads :
        \/ rl_gate(t) \/ rl_rm(t) \/ rl_inc(t) \/ rl_rmu(t) \/ rl_gu(t)
        \/ ru_rm(t) \/ ru_dec(t) \/ ru_load(t) \/ ru_loop(t) \/ ru_notify(t) \/ ru_rmu(t)
        \/ wl_gate(t) \/ wl_set(t) \/ wl_load(t) \/ wl_wait(t) \/ wl_wake(t) \/ wl_clear(t)
        \/ wu_gu(t)
        \/ SpuriousWakeup(t)
        \/ DirectReadLock(t) /\ Unbounded
        \/ DirectReadUnlock(t)
        \/ DirectWriteLock(t) /\ Unbounded
        \/ DirectWriteUnlock(t)

NextRec ==
    /\ UNCHANGED nonLockVars
    /\ \E t \in Threads :
        \/ rl_gate(t) \/ rl_rm(t) \/ rl_inc(t) \/ rl_rmu(t) \/ rl_gu(t)
        \/ ru_rm(t) \/ ru_dec(t) \/ ru_load(t) \/ ru_loop(t) \/ ru_notify(t) \/ ru_rmu(t)
        \/ wl_gate(t) \/ wl_set(t) \/ wl_load(t) \/ wl_wait(t) \/ wl_wake(t) \/ wl_clear(t)
        \/ wu_gu(t)
        \/ SpuriousWakeup(t)
        \/ LifoReadLock(t) /\ Unbounded
        \/ LifoReadUnlock(t)
        \/ LifoWriteLock(t) /\ Unbounded
        \/ LifoWriteUnlock(t)

NextB ==
    /\ UNCHANGED nonLockVars
    /\ \E t \in Threads :
        \/ rl_gate(t) \/ rl_rm(t) \/ rl_inc(t) \/ rl_rmu(t) \/ rl_gu(t)
        \/ ru_rm(t) \/ ru_dec(t) \/ ru_load(t) \/ ru_loop(t) \/ ru_notify(t) \/ ru_rmu(t)
        \/ wl_gate(t) \/ wl_set(t) \/ wl_load(t) \/ wl_wait(t) \/ wl_wake(t) \/ wl_clear(t)
        \/ wu_gu(t)
        \/ SpuriousWakeup(t)
        \/ ProgReadLock(t) \/ ProgReadUnlock(t)
        \/ ProgWriteLock(t) \/ ProgWriteUnlock(t)

NextAnyOrder ==
    /\ UNCHANGED nonLockVars
    /\ \E t \in Threads :
        \/ rl_gate(t) \/ rl_rm(t) \/ rl_inc(t) \/ rl_rmu(t) \/ rl_gu(t)
        \/ ru_rm(t) \/ ru_dec(t) \/ ru_load(t) \/ ru_loop(t) \/ ru_notify(t) \/ ru_rmu(t)
        \/ wl_gate(t) \/ wl_set(t) \/ wl_load(t) \/ wl_wait(t) \/ wl_wake(t) \/ wl_clear(t)
        \/ wu_gu(t)
        \/ SpuriousWakeup(t)
        \/ LifoReadLock(t) /\ Budget(t, MaxAnyOrderCalls)
        \/ AnyOrderReadUnlock(t)
        \/ LifoWriteLock(t) /\ Budget(t, MaxAnyOrderCalls)
        \/ AnyOrderWriteUnlock(t)

NextMisuse ==
    /\ UNCHANGED nonLockVars
    /\ \E t \in Threads :
        \/ rl_gate(t) \/ rl_rm(t) \/ rl_inc(t) \/ rl_rmu(t) \/ rl_gu(t)
        \/ ru_rm(t) \/ ru_dec(t) \/ ru_load(t) \/ ru_loop(t) \/ ru_notify(t) \/ ru_rmu(t)
        \/ wl_gate(t) \/ wl_set(t) \/ wl_load(t) \/ wl_wait(t) \/ wl_wake(t) \/ wl_clear(t)
        \/ wu_gu(t)
        \/ SpuriousWakeup(t)
        \/ LifoReadLock(t) /\ Unbounded
        \/ LifoReadUnlock(t)
        \/ LifoWriteLock(t) /\ Unbounded
        \/ LifoWriteUnlock(t)
        \/ MisuseReadUnlock(t)
        \/ MisuseWriteUnlock(t)

\* A process that has faulted runs no more.
NextA ==
    /\ ~crashed
    /\ UNCHANGED <<validatorVars, crossWalkVars, instanceVars>>
    /\ \E t \in Threads :
        \/ /\ UNCHANGED nonLockVars
           /\ \/ rl_gate(t) \/ rl_rm(t) \/ rl_inc(t) \/ rl_rmu(t) \/ rl_gu(t)
              \/ ru_rm(t) \/ ru_dec(t) \/ ru_load(t) \/ ru_loop(t) \/ ru_notify(t) \/ ru_rmu(t)
              \/ wl_gate(t) \/ wl_set(t) \/ wl_load(t) \/ wl_wait(t) \/ wl_wake(t) \/ wl_clear(t)
              \/ wu_gu(t)
              \/ SpuriousWakeup(t)
              \/ ProgReadLock(t) \/ ProgReadUnlock(t)
              \/ ProgWriteLock(t) \/ ProgWriteUnlock(t)
        \/ emplace_back_read(t) \/ emplace_back_write(t)
        \/ range_for_begin(t) \/ range_for_end(t)

NextValidator ==
    /\ ~crashed
    /\ UNCHANGED <<lockVars, Vec, inVec, crossWalkVars, instanceVars>>
    /\ \E h \in DOMAIN objects :
        \/ MutexValidator_Default(h)
        \/ \E other \in DOMAIN objects : MutexValidator_Copy(h, other)
        \/ \E other \in DOMAIN objects : MutexValidator_Assign(h, other)
        \/ MutexValidator_Destroy(h)

NextFairBase ==
    /\ UNCHANGED nonLockVars
    /\ \E t \in Threads :
        \/ rl_gate(t) \/ rl_rm(t) \/ rl_inc(t) \/ rl_rmu(t) \/ rl_gu(t)
        \/ ru_rm(t) \/ ru_dec(t) \/ ru_load(t) \/ ru_loop(t) \/ ru_notify(t) \/ ru_rmu(t)
        \/ wl_gate(t) \/ wl_set(t) \/ wl_load(t) \/ wl_wait(t) \/ wl_wake(t) \/ wl_clear(t)
        \/ wu_gu(t)
        \/ SpuriousWakeup(t)
        \/ DirectReadLock(t) /\ Budget(t, MaxCalls)
        \/ DirectReadUnlock(t)
        \/ DirectWriteLock(t) /\ Budget(t, MaxCalls)
        \/ DirectWriteUnlock(t)

NextInCallFairBase ==
    /\ UNCHANGED nonLockVars
    /\ \E t \in Threads :
        \/ rl_gate(t) \/ rl_rm(t) \/ rl_inc(t) \/ rl_rmu(t) \/ rl_gu(t)
        \/ ru_rm(t) \/ ru_dec(t) \/ ru_load(t) \/ ru_loop(t) \/ ru_notify(t) \/ ru_rmu(t)
        \/ wl_gate(t) \/ wl_set(t) \/ wl_load(t) \/ wl_wait(t) \/ wl_wake(t) \/ wl_clear(t)
        \/ wu_gu(t)
        \/ SpuriousWakeup(t)
        \/ DirectReadLock(t) /\ SharedBudget(t, MaxBaseCalls)
        \/ DirectReadUnlock(t)
        \/ DirectWriteLock(t) /\ SharedBudget(t, MaxBaseCalls)
        \/ DirectWriteUnlock(t)

NextFairRec ==
    /\ UNCHANGED nonLockVars
    /\ \E t \in Threads :
        \/ rl_gate(t) \/ rl_rm(t) \/ rl_inc(t) \/ rl_rmu(t) \/ rl_gu(t)
        \/ ru_rm(t) \/ ru_dec(t) \/ ru_load(t) \/ ru_loop(t) \/ ru_notify(t) \/ ru_rmu(t)
        \/ wl_gate(t) \/ wl_set(t) \/ wl_load(t) \/ wl_wait(t) \/ wl_wake(t) \/ wl_clear(t)
        \/ wu_gu(t)
        \/ SpuriousWakeup(t)
        \/ LifoReadLock(t) /\ SharedBudget(t, MaxRecCalls)
        \/ LifoReadUnlock(t)
        \/ LifoWriteLock(t) /\ SharedBudget(t, MaxRecCalls)
        \/ LifoWriteUnlock(t)

\* Threads using ReadWriteMutex directly.
SpecBase == InitBase /\ [][NextBase]_vars
Spec == SpecBase
\* Threads using RecursiveReadWriteMutex in properly nested brackets.
SpecRec == InitRec /\ [][NextRec]_vars
\* th4 and th5 of main.
SpecB == InitB /\ [][NextB]_vars
\* Threads using RecursiveReadWriteMutex with balanced brackets closed in any order.
SpecAnyOrder == InitRec /\ [][NextAnyOrder]_vars
\* Threads using RecursiveReadWriteMutex that also unlock without a lock.
SpecMisuse == InitRec /\ [][NextMisuse]_vars
\* One thread constructing, copying, assigning and destroying MutexValidator objects.
SpecValidator == InitFor(1, NoPrograms(1)) /\ [][NextValidator]_vars
\* th1, th2 and th3 of main.
SpecA == InitA /\ [][NextA]_vars

\* Finite thread functions under a scheduler that runs every thread that can
\* take a step: a thread inside a method goes on with it, and a thread with a
\* bracket open goes on to the unlock that closes it.  A thread function may
\* end before it has made all its lock calls, so no lock call is owed; a
\* spurious wakeup may happen but is never owed to a waiting thread.
FairSpecBase ==
    /\ InitFair /\ [][NextFairBase]_vars
    /\ \A t \in 1..FairThreads :
          WF_vars(/\ BaseStep(t) \/ DirectReadUnlock(t) \/ DirectWriteUnlock(t)
                  /\ UNCHANGED nonLockVars)
\* Threads using ReadWriteMutex directly in a program that makes up to
\* MaxBaseCalls lock calls, under a scheduler that owes a thread nothing but
\* the steps of the call it is in: a thread between calls may stay there for
\* ever.
InCallFairSpecBase ==
    /\ InitBase /\ [][NextInCallFairBase]_vars
    /\ \A t \in 1..BaseThreads : WF_vars(BaseStep(t) /\ UNCHANGED nonLockVars)
\* Threads that go on calling ReadWriteMutex for ever, under the same
\* scheduler as FairSpecBase: a thread inside a method goes on with it when it
\* can, a thread with a section open goes on to the unlock that closes it, no
\* new lock call is owed.  std::mutex::lock promises no order among the
\* threads waiting for a mutex, so a thread that could lock a mutex only now
\* and then is owed nothing (weak fairness).
FairLoopSpecBase ==
    /\ InitFair /\ [][NextBase]_vars
    /\ \A t \in 1..FairThreads :
          WF_vars(/\ BaseStep(t) \/ DirectReadUnlock(t) \/ DirectWriteUnlock(t)
                  /\ UNCHANGED nonLockVars)
FairSpecRec ==
    /\ InitFair /\ [][NextFairRec]_vars
    /\ \A t \in 1..FairThreads :
          WF_vars(/\ BaseStep(t) \/ LifoReadUnlock(t) \/ LifoWriteUnlock(t)
                  /\ UNCHANGED nonLockVars)

----------------------------------------------------------------------------
\* ThreadCrossWalk (src/CrossWalk.cpp, and the spin version of
\* src/unnamed/part_002) with the demo's threads: every Road function loops
\* over CarStartCrossRoad, CarStopCrossRoad; Pedestrian crosses once.

CarThreads == 1..Cars
PedThreads == (Cars + 1)..(Cars + Pedestrians)
Versions == {"CrossWalk.cpp", "part_002"}
IsCondVar == version = "CrossWalk.cpp"

Walk(t, from, to) == walk[t] = from /\ walk' = [walk EXCEPT ![t] = to]

\* Positions at which a pedestrian owns Mtx.
PedGatePcs == {"ps_set", "ps_load", "ps_wait", "ps_blocked", "ps_clear", "ps_spin",
               "walking", "pp_mtxu"}

\* Road1..Road3: Wk.CarStartCrossRoad() is called
CarStartCrossRoad(t) ==
    /\ t \in CarThreads
    /\ Walk(t, "idle", "cs_mtx")
    /\ behind' = [behind EXCEPT ![t] = {p \in PedThreads : walk[p] \in PedGatePcs}]
    /\ UNCHANGED <<version, Wk>>

\* Mtx.lock()
cs_mtx(t) ==
    /\ IsCondVar
    /\ Walk(t, "cs_mtx", "cs_road")
    /\ Wk.Mtx = 0
    /\ Wk' = [Wk EXCEPT !.Mtx = t]
    /\ UNCHANGED <<version, behind>>

\* RoadMtx.lock()
cs_road(t) ==
    /\ Walk(t, "cs_road", "cs_inc")
    /\ Wk.RoadMtx = 0
    /\ Wk' = [Wk EXCEPT !.RoadMtx = t]
    /\ UNCHANGED <<version, behind>>

\* RoadCounter.fetch_add(1)
cs_inc(t) ==
    /\ Walk(t, "cs_inc", "cs_roadu")
    /\ Wk' = [Wk EXCEPT !.RoadCounter = @ + 1]
    /\ UNCHANGED <<version, behind>>

\* RoadMtx.unlock()
cs_roadu(t) ==
    /\ Walk(t, "cs_roadu", "cs_mtxu")
    /\ Wk' = [Wk EXCEPT !.RoadMtx = 0]
    /\ UNCHANGED <<version, behind>>

\* Mtx.unlock(), and CarStartCrossRoad returns: the car is on the crossing
cs_mtxu(t) ==
    /\ Walk(t, "cs_mtxu", "driving")
    /\ Wk' = [Wk EXCEPT !.Mtx = 0]
    /\ UNCHANGED <<version, behind>>

\* Road1..Road3: Wk.CarStopCrossRoad() is called
CarStopCrossRoad(t) ==
    /\ t \in CarThreads
    /\ Walk(t, "driving", IF IsCondVar THEN "cp_road" ELSE "spin_cp_dec")
    /\ UNCHANGED <<version, Wk, behind>>

\* RoadMtx.lock()
cp_road(t) ==
    /\ Walk(t, "cp_road", "cp_dec")
    /\ Wk.RoadMtx = 0
    /\ Wk' = [Wk EXCEPT !.RoadMtx = t]
    /\ UNCHANGED <<version, behind>>

\* RoadCounter.fetch_sub(1)
cp_dec(t) ==
    /\ Walk(t, "cp_dec", "cp_load")
    /\ Wk' = [Wk EXCEPT !.RoadCounter = @ - 1]
    /\ UNCHANGED <<version, behind>>

\* if (RoadCounter.load() == 0)
cp_load(t) ==
    /\ Walk(t, "cp_load", IF Wk.RoadCounter = 0 THEN "cp_loop" ELSE "cp_roadu")
    /\ UNCHANGED <<version, Wk, behind>>

\* while (IsCondVarWaiting.load())
cp_loop(t) ==
    /\ Walk(t, "cp_loop", IF Wk.IsCondVarWaiting THEN "cp_notify" ELSE "cp_roadu")
    /\ UNCHANGED <<version, Wk, behind>>

\* Cv.notify_all(): wakes the threads blocked in Cv.wait at this moment
cp_notify(t) ==
    /\ Walk(t, "cp_notify", "cp_loop")
    /\ Wk' = [Wk EXCEPT !.Cv = {}]
    /\ UNCHANGED <<version, behind>>

\* RoadMtx.unlock(), and CarStopCrossRoad returns
cp_roadu(t) ==
    /\ Walk(t, "cp_roadu", "idle")
    /\ Wk' = [Wk EXCEPT !.RoadMtx = 0]
    /\ UNCHANGED <<version, behind>>

\* Pedestrian: Wk.PedestrianStartCrossRoad() is called
PedestrianStartCrossRoad(t) ==
    /\ t \in PedThreads
    /\ Walk(t, "idle", IF IsCondVar THEN "ps_mtx" ELSE "spin_ps_mtx")
    /\ UNCHANGED <<version, Wk, behind>>

\* Mtx.lock()
ps_mtx(t) ==
    /\ Walk(t, "ps_mtx", "ps_set")
    /\ Wk.Mtx = 0
    /\ Wk' = [Wk EXCEPT !.Mtx = t]
    /\ UNCHANGED <<version, behind>>

\* IsCondVarWaiting.store(true)
ps_set(t) ==
    /\ Walk(t, "ps_set", "ps_load")
    /\ Wk' = [Wk EXCEPT !.IsCondVarWaiting = TRUE]
    /\ UNCHANGED <<version, behind>>

\* if (RoadCounter > 0)
ps_load(t) ==
    /\ Walk(t, "ps_load", IF Wk.RoadCounter > 0 THEN "ps_wait" ELSE "ps_clear")
    /\ UNCHANGED <<version, Wk, behind>>

\* Cv.wait(lk): the thread starts to wait
ps_wait(t) ==
    /\ Walk(t, "ps_wait", "ps_blocked")
    /\ Wk' = [Wk EXCEPT !.Cv = @ \cup {t}]
    /\ UNCHANGED <<version, behind>>

\* Cv.wait(lk) returns once the thread has been woken
ps_wake(t) ==
    /\ t \notin Wk.Cv
    /\ Walk(t, "ps_blocked", "ps_clear")
    /\ UNCHANGED <<version, Wk, behind>>

\* Cv.wait(lk) has no predicate: the wait may also be woken spuriously
ps_SpuriousWakeup(t) ==
    /\ walk[t] = "ps_blocked"
    /\ t \in Wk.Cv
    /\ Wk' = [Wk EXCEPT !.Cv = @ \ {t}]
    /\ UNCHANGED <<version, walk, behind>>

\* IsCondVarWaiting.store(false), and PedestrianStartCrossRoad returns: the
\* pedestrian is on the crossing
ps_clear(t) ==
    /\ Walk(t, "ps_clear", "walking")
    /\ Wk' = [Wk EXCEPT !.IsCondVarWaiting = FALSE]
    /\ UNCHANGED <<version, behind>>

\* Pedestrian: Wk.PedestrianStopCrossRoad() is called
PedestrianStopCrossRoad(t) ==
    /\ t \in PedThreads
    /\ Walk(t, "walking", "pp_mtxu")
    /\ UNCHANGED <<version, Wk, behind>>

\* Mtx.unlock(), PedestrianStopCrossRoad returns and Pedestrian ends
pp_mtxu(t) ==
    /\ Walk(t, "pp_mtxu", "done")
    /\ Wk' = [Wk EXCEPT !.Mtx = 0]
    /\ behind' = [c \in DOMAIN behind |-> behind[c] \ {t}]
    /\ UNCHANGED version

\* The spin version.  CarStartCrossRoad: Mtx.lock()
spin_cs_mtx(t) ==
    /\ ~IsCondVar
    /\ Walk(t, "cs_mtx", "spin_cs_inc")
    /\ Wk.Mtx = 0
    /\ Wk' = [Wk EXCEPT !.Mtx = t]
    /\ UNCHANGED <<version, behind>>

\* AtomicCounter.fetch_add(1)
spin_cs_inc(t) ==
    /\ Walk(t, "spin_cs_inc", "spin_cs_mtxu")
    /\ Wk' = [Wk EXCEPT !.AtomicCounter = @ + 1]
    /\ UNCHANGED <<version, behind>>

\* Mtx.unlock(), and CarStartCrossRoad returns
spin_cs_mtxu(t) ==
    /\ Walk(t, "spin_cs_mtxu", "driving")
    /\ Wk' = [Wk EXCEPT !.Mtx = 0]
    /\ UNCHANGED <<version, behind>>

\* CarStopCrossRoad: AtomicCounter.fetch_sub(1)
spin_cp_dec(t) ==
    /\ Walk(t, "spin_cp_dec", "idle")
    /\ Wk' = [Wk EXCEPT !.AtomicCounter = @ - 1]
    /\ UNCHANGED <<version, behind>>

\* PedestrianStartCrossRoad: Mtx.lock()
spin_ps_mtx(t) ==
    /\ Walk(t, "spin_ps_mtx", "ps_spin")
    /\ Wk.Mtx = 0
    /\ Wk' = [Wk EXCEPT !.Mtx = t]
    /\ UNCHANGED <<version, behind>>

\* while (AtomicCounter.load() != 0); ends, and PedestrianStartCrossRoad returns
ps_spin(t) ==
    /\ Wk.AtomicCounter = 0
    /\ Walk(t, "ps_spin", "walking")
    /\ UNCHANGED <<version, Wk, behind>>

CrossWalkStep(t) ==
    \/ CarStartCrossRoad(t) \/ cs_mtx(t) \/ cs_road(t) \/ cs_inc(t) \/ cs_roadu(t)
    \/ cs_mtxu(t)
    \/ CarStopCrossRoad(t) \/ cp_road(t) \/ cp_dec(t) \/ cp_load(t) \/ cp_loop(t)
    \/ cp_notify(t) \/ cp_roadu(t)
    \/ PedestrianStartCrossRoad(t) \/ ps_mtx(t) \/ ps_set(t) \/ ps_load(t)
    \/ ps_wait(t) \/ ps_wake(t) \/ ps_SpuriousWakeup(t) \/ ps_clear(t)
    \/ PedestrianStopCrossRoad(t) \/ pp_mtxu(t)
    \/ spin_cs_mtx(t) \/ spin_cs_inc(t) \/ spin_cs_mtxu(t) \/ spin_cp_dec(t)
    \/ spin_ps_mtx(t) \/ ps_spin(t)

NextCrossWalk ==
    /\ UNCHANGED <<lockVars, demoVars, validatorVars, instanceVars>>
    /\ \E t \in DOMAIN walk : CrossWalkStep(t)

\* The demo of either version of ThreadCrossWalk.
InitCrossWalk == InitObjects(1, NoPrograms(1)) /\ version \in Versions
SpecCrossWalk == InitCrossWalk /\ [][NextCrossWalk]_vars

----------------------------------------------------------------------------
\* One thread (thread 1) using two RecursiveReadWriteMutex objects, each with
\* properly nested brackets.  Every object has its own Rwmx; the counters
\* LocalThreadReadLockCounter and LocalThreadWriteLockCounter are thread_local
\* globals, one pair per thread whatever the object.  No other thread runs, so
\* a method of Rwmx runs to its end in one step unless it blocks, and
\* IsCondVarWaiting is false between calls (the notify loop of ReadUnlock ends
\* at its first test).

\* ReadWriteMutex::ReadLock and ReadUnlock on the members r of an Rwmx whose
\* mutexes are free
AfterReadLock(r) == [r EXCEPT !.ReadCounter = @ + 1, !.holder = TRUE]
AfterReadUnlock(r) == [r EXCEPT !.ReadCounter = @ - 1, !.holder = FALSE]

\* std::mutex::lock() by the thread that owns the mutex is undefined: the
\* thread deadlocks on itself, or the process is ended.
OwnedMutexLocked ==
    \/ where' = "deadlock" /\ UNCHANGED crashed
    \/ crashed' = TRUE /\ UNCHANGED where

\* The call of the underlying lock has returned.
Returned == where' = "idle" /\ ~crashed'

\* Rwmx.ReadLock() of object i, its members being r
Rwmx_ReadLock(i, r) ==
    IF r.WriteMutex = 0
    THEN /\ Rwmxs' = [Rwmxs EXCEPT ![i] = AfterReadLock(r)]
         /\ UNCHANGED <<where, crashed>>
    ELSE /\ Rwmxs' = [Rwmxs EXCEPT ![i] = r]
         /\ OwnedMutexLocked

\* Rwmx.WriteLock() of object i, its members being r, up to its return or to
\* Cv.wait
Rwmx_WriteLock(i, r) ==
    IF r.WriteMutex # 0
    THEN /\ Rwmxs' = [Rwmxs EXCEPT ![i] = r]
         /\ OwnedMutexLocked
    ELSE IF r.ReadCounter > 0
         THEN /\ Rwmxs' = [Rwmxs EXCEPT ![i] =
                             [r EXCEPT !.WriteMutex = 1, !.IsCondVarWaiting = TRUE]]
              /\ where' = "wl_blocked"
              /\ UNCHANGED crashed
         ELSE /\ Rwmxs' = [Rwmxs EXCEPT ![i] = [r EXCEPT !.WriteMutex = 1]]
              /\ UNCHANGED <<where, crashed>>

\* Rwmx.WriteUnlock() of object i and, if readAgain, Rwmx.ReadLock().
\* std::mutex::unlock() by a thread that does not own the mutex is undefined:
\* nothing visible happens, or the process is ended.
Rwmx_WriteUnlock(i, readAgain) ==
    LET r == [Rwmxs[i] EXCEPT !.WriteMutex = 0]
    IN  /\ Rwmxs' = [Rwmxs EXCEPT ![i] = IF readAgain THEN AfterReadLock(r) ELSE r]
        /\ crashed' \in (IF Rwmxs[i].WriteMutex = 0 THEN BOOLEAN ELSE {FALSE})
        /\ UNCHANGED where

SetReadCounter(v) ==
    /\ LocalThreadReadLockCounter' = [LocalThreadReadLockCounter EXCEPT ![1] = v]
    /\ UNCHANGED LocalThreadWriteLockCounter

SetWriteCounter(v) ==
    /\ LocalThreadWriteLockCounter' = [LocalThreadWriteLockCounter EXCEPT ![1] = v]
    /\ UNCHANGED LocalThreadReadLockCounter

\* i.ReadLock()
InstReadLock(i) ==
    /\ where = "idle"
    /\ Len(nest[i]) < MaxDepth
    /\ Budget(1, MaxInstanceCalls)
    /\ nest' = [nest EXCEPT ![i] = Append(@, "R")]
    /\ IF LocalThreadWriteLockCounter[1] = 0
       THEN /\ IF LocalThreadReadLockCounter[1] = 0
               THEN Rwmx_ReadLock(i, Rwmxs[i])
               ELSE UNCHANGED <<Rwmxs, where, crashed>>
            /\ IF Returned
               THEN SetReadCounter(SizeInc(LocalThreadReadLockCounter[1]))
               ELSE UNCHANGED localVars
       ELSE UNCHANGED <<Rwmxs, where, crashed, localVars>>

\* i.ReadUnlock()
InstReadUnlock(i) ==
    /\ where = "idle"
    /\ nest[i] # << >> /\ Top(nest[i]) = "R"
    /\ nest' = [nest EXCEPT ![i] = Pop(@)]
    /\ UNCHANGED <<calls, where, crashed>>
    /\ IF LocalThreadWriteLockCounter[1] = 0
       THEN /\ IF LocalThreadReadLockCounter[1] = 1
               THEN Rwmxs' = [Rwmxs EXCEPT ![i] = AfterReadUnlock(@)]
               ELSE UNCHANGED Rwmxs
            /\ SetReadCounter(SizeDec(LocalThreadReadLockCounter[1]))
       ELSE UNCHANGED <<Rwmxs, localVars>>

\* i.WriteLock(), up to its return or to Cv.wait
InstWriteLock(i) ==
    /\ where = "idle"
    /\ Len(nest[i]) < MaxDepth
    /\ Budget(1, MaxInstanceCalls)
    /\ nest' = [nest EXCEPT ![i] = Append(@, "W")]
    /\ IF LocalThreadWriteLockCounter[1] = 0
       THEN Rwmx_WriteLock(i, IF SizeGtZero(LocalThreadReadLockCounter[1])
                              THEN AfterReadUnlock(Rwmxs[i]) ELSE Rwmxs[i])
       ELSE UNCHANGED <<Rwmxs, where, crashed>>
    /\ IF Returned
       THEN SetWriteCounter(SizeInc(LocalThreadWriteLockCounter[1]))
       ELSE UNCHANGED localVars

\* Cv.wait(lk) in i.WriteLock() returns: no other thread runs, so the wakeup
\* is a spurious one; Rwmx.WriteLock() and i.WriteLock() return
InstSpuriousWakeup(i) ==
    /\ where = "wl_blocked"
    /\ Rwmxs[i].IsCondVarWaiting
    /\ Rwmxs' = [Rwmxs EXCEPT ![i].IsCondVarWaiting = FALSE]
    /\ where' = "idle"
    /\ SetWriteCounter(SizeInc(LocalThreadWriteLockCounter[1]))
    /\ UNCHANGED <<nest, calls, crashed>>

\* i.WriteUnlock()
InstWriteUnlock(i) ==
    /\ where = "idle"
    /\ nest[i] # << >> /\ Top(nest[i]) = "W"
    /\ nest' = [nest EXCEPT ![i] = Pop(@)]
    /\ UNCHANGED calls
    /\ IF LocalThreadWriteLockCounter[1] = 1
       THEN Rwmx_WriteUnlock(i, SizeGtZero(LocalThreadReadLockCounter[1]))
       ELSE UNCHANGED <<Rwmxs, where, crashed>>
    /\ SetWriteCounter(SizeDec(LocalThreadWriteLockCounter[1]))

NextInstances ==
    /\ ~crashed
    /\ UNCHANGED <<pc, op, baseVars, stack, prog, holders, historyVars, Vec, inVec,
                   validatorVars, crossWalkVars>>
    /\ \E i \in Instances :
        \/ InstReadLock(i) \/ InstReadUnlock(i)
        \/ InstWriteLock(i) \/ InstSpuriousWakeup(i) \/ InstWriteUnlock(i)

\* One thread using two RecursiveReadWriteMutex objects.
SpecInstances == InitFor(1, NoPrograms(1)) /\ [][NextInstances]_vars

----------------------------------------------------------------------------
\* Properties

\* What the underlying lock records of thread t: it is counted in ReadCounter
\* (shared access), it owns WriteMutex (exclusive access).
HoldsShared(t) == t \in holders
HoldsExclusive(t) == WriteMutex = t

\* C1: mutual exclusion: at most one thread is between the return of WriteLock
\* and its WriteUnlock, and no thread is between the return of ReadLock and its
\* ReadUnlock while another one is between WriteLock and WriteUnlock.
C1_MutualExclusion ==
    \A t \in Threads : \A u \in Threads \ {t} :
        /\ ~(InWrite(t) /\ InWrite(u))
        /\ ~(InWrite(t) /\ InRead(u))

\* C2: while a writer owns the gate (from its acquisition in WriteLock, waiting
\* for the readers or in its critical section, until its WriteUnlock releases
\* it) no step increments ReadCounter and no ReadLock of another thread returns.
C2_WriterPreferenceAtGate ==
    [][\A w \in Threads :
          HoldsGate(w) =>
              /\ ReadCounter' <= ReadCounter
              /\ \A t \in Threads \ {w} : pc[t] = "rl_gu" => pc'[t] = "rl_gu"]_vars

\* C2 witness: a writer waits in Cv.wait for the readers to leave while another
\* thread's ReadLock stands at the gate.
C2_Witness ==
    \E w \in Threads : \E t \in Threads \ {w} :
        pc[w] = "wl_blocked" /\ WriteMutex = w /\ pc[t] = "rl_gate"

C4_NoLostWakeup ==
    \A w \in 1..FairThreads : (pc[w] = "wl_wait") ~> InWrite(w)

\* C4 witness: the last reader is already in its notify loop when the writer
\* has read ReadCounter > 0 and has not started to wait yet.
C4_Witness ==
    \E w \in Threads : \E r \in Threads \ {w} :
        pc[w] = "wl_wait" /\ pc[r] = "ru_notify" /\ ReadCounter = 0

\* C5: a thread that is not inside a call of the wrapper is counted in
\* ReadCounter exactly when its read counter is > 0 and its write counter is 0,
\* and owns the gate exactly when its write counter is > 0.
C5_HoldInvariant ==
    \A t \in Threads :
        op[t] = "none" =>
            /\ HoldsShared(t) <=>
                  (SizeGtZero(LocalThreadReadLockCounter[t])
                      /\ LocalThreadWriteLockCounter[t] = 0)
            /\ HoldsExclusive(t) <=> SizeGtZero(LocalThreadWriteLockCounter[t])

\* C5 witness: a thread has upgraded: read counter 1, write counter 1, it owns
\* the gate and is not counted in ReadCounter.
C5_Witness ==
    \E t \in Threads :
        /\ op[t] = "none"
        /\ LocalThreadReadLockCounter[t] = 1 /\ LocalThreadWriteLockCounter[t] = 1
        /\ HoldsExclusive(t) /\ ~HoldsShared(t)

\* t's outermost bracket is a read section: its first ReadLock has returned and
\* its final ReadUnlock has not started.
InOuterReadSection(t) ==
    stack[t] # << >> /\ stack[t][1] = "R" /\ op[t] # "ReadLock"

\* Inside WriteLock, from the decrement of Rwmx.ReadUnlock() until
\* Rwmx.WriteLock() owns the gate.
InUpgradeWindow(t) ==
    op[t] = "WriteLock" /\ pc[t] \in {"ru_load", "ru_loop", "ru_notify", "ru_rmu", "wl_gate"}
\* Inside WriteUnlock, from the release of the gate by Rwmx.WriteUnlock() until
\* Rwmx.ReadLock() owns it.
InDowngradeWindow(t) ==
    op[t] = "WriteUnlock" /\ pc[t] = "rl_gate"

\* C6 as claimed: between its first ReadLock and its final ReadUnlock, the
\* states inside WriteLock and WriteUnlock included, a thread is recorded as
\* holding shared or exclusive access.
C6_UpgradeKeepsAccess ==
    \A t \in Threads :
        InOuterReadSection(t) => HoldsShared(t) \/ HoldsExclusive(t)

\* C6 amended: the same, except inside WriteLock between the release of the
\* shared hold and the acquisition of the gate, and inside WriteUnlock between
\* the release of the gate and its acquisition by ReadLock.
C6_AccessOutsideWindows ==
    \A t \in Threads :
        InOuterReadSection(t) /\ ~InUpgradeWindow(t) /\ ~InDowngradeWindow(t)
            => HoldsShared(t) \/ HoldsExclusive(t)

\* C6 witness: inside WriteUnlock of ReadLock, WriteLock, WriteUnlock the thread
\* has been counted in ReadCounter again.
C6_Witness ==
    \E t \in Threads :
        /\ stack[t] = <<"R">> /\ op[t] = "WriteUnlock" /\ pc[t] = "rl_rmu"
        /\ HoldsShared(t)

\* th4 (thread 1 of SpecB): its first ReadLock has returned and its final
\* ReadUnlock has not returned yet.
Th4SectionOpen ==
    /\ Len(prog[1]) < 4
    /\ ~(Len(prog[1]) = 3 /\ op[1] = "ReadLock")
    /\ ~(prog[1] = << >> /\ op[1] = "none")

\* C7 as claimed: th5 (thread 2 of SpecB) is not between the return of its
\* WriteLock and its WriteUnlock while th4's first ReadLock has returned and
\* its final ReadUnlock has not.  (th5 cannot have taken the gate before th4's
\* ReadLock returned and still be in its write section: ReadLock returns with
\* the gate in its hand.)
C7_ScenarioB ==
    ~(InWrite(2) /\ Th4SectionOpen)

\* C7 amended: th5 is not between the return of its WriteLock and its
\* WriteUnlock while th4 is between the return of its WriteLock and its
\* WriteUnlock.
C7_ScenarioB_WriteSections ==
    ~(InWrite(2) /\ InWrite(1))

\* C7 witness: th5 is in its write section while th4, its read section open,
\* stands at the gate inside WriteLock.
C7_Witness ==
    InWrite(2) /\ op[1] = "WriteLock" /\ pc[1] = "wl_gate" /\ stack[1] = <<"R", "W">>

C9_ReentrancyIdempotence ==
    [][\A t \in Threads :
          (\/ /\ stack'[t] = Append(stack[t], "R")
              /\ SizeGtZero(LocalThreadReadLockCounter[t])
           \/ /\ stack[t] # << >> /\ Top(stack[t]) = "R" /\ stack'[t] = Pop(stack[t])
              /\ LocalThreadReadLockCounter[t] \notin {0, 1}
              /\ LocalThreadWriteLockCounter[t] = 0
           \/ /\ stack'[t] = Append(stack[t], "W")
              /\ SizeGtZero(LocalThreadWriteLockCounter[t])
           \/ /\ stack[t] # << >> /\ Top(stack[t]) = "W" /\ stack'[t] = Pop(stack[t])
              /\ LocalThreadWriteLockCounter[t] \notin {0, 1})
          => /\ UNCHANGED <<baseVars, holders>>
             /\ pc'[t] = "idle" /\ op'[t] = "none"]_vars

\* C9 witness: a thread holds two nested read sections while ReadCounter
\* counts it once.
C9_Witness ==
    \E t \in Threads :
        /\ op[t] = "none" /\ LocalThreadReadLockCounter[t] = 2
        /\ HoldsShared(t) /\ ReadCounter = Cardinality(holders)

\* No thread has a call in progress or a bracket open.
AllReleased == \A t \in Threads : op[t] = "none" /\ stack[t] = << >>

\* Some thread can run a statement or make a call (a spurious wakeup is not
\* counted: nothing makes it happen).
SomeThreadCanRun == ENABLED (\E t \in Threads : BaseStep(t) \/ FiniteLifoCall(t))

\* C10: no reachable state is a deadlock (either everything is released or
\* some thread can run), and under fair scheduling every thread completes its
\* calls: from some point on no call is in progress and no bracket is open.
C10_DeadlockFreedom ==
    /\ [](AllReleased \/ SomeThreadCanRun)
    /\ <>[]AllReleased

\* C10 witness: two threads upgrade at once: both are inside WriteLock with
\* their read sections open.
C10_Witness ==
    \E t \in Threads : \E u \in Threads \ {t} :
        /\ op[t] = "WriteLock" /\ op[u] = "WriteLock"
        /\ SizeGtZero(LocalThreadReadLockCounter[t])
        /\ SizeGtZero(LocalThreadReadLockCounter[u])

\* Number of elements of Vec equal to i.
CountInVec(i) == Cardinality({k \in 1..Len(Vec) : Vec[k] = i})

\* th1, th2 and th3 have run their functions to the end.
DemoDone == \A t \in Threads : pc[t] = "idle" /\ prog[t] = << >>

\* C11: at every moment Vec holds each completed emplace_back(i) exactly once
\* (each value i as many times as there are writers that have appended it), so
\* when the threads are done it holds 2 * Iterations elements, each value twice.
C11_NoLostUpdates ==
    /\ \A i \in 0..(Iterations - 1) :
          CountInVec(i) = Cardinality({t \in Writers : LoopIndex(t) > i})
    /\ DemoDone =>
          /\ Len(Vec) = 2 * Iterations
          /\ \A i \in 0..(Iterations - 1) : CountInVec(i) = 2

\* C11 witness: the three threads are done and Vec holds all the appends.
C11_Witness == DemoDone /\ Len(Vec) = 2 * Iterations

\* C12: the thread_local counters never hold a value that only a decrement at
\* 0 produces, and an unlock without a matching lock (ReadUnlock at counters
\* 0 and 0, WriteUnlock at write counter 0) ends the process with a fault and
\* leaves the counters and the underlying lock as they are.
C12_MisuseRejected ==
    /\ [](\A t \in Threads :
            LocalThreadReadLockCounter[t] >= 0 /\ LocalThreadWriteLockCounter[t] >= 0)
    /\ [][\A t \in Threads :
            MisuseReadUnlock(t) \/ MisuseWriteUnlock(t)
                => UNCHANGED <<localVars, baseVars>> /\ crashed']_vars

\* Statements of ReadWriteMutex::ReadLock.
ReadLockPcs == {"rl_gate", "rl_rm", "rl_inc", "rl_rmu", "rl_gu"}

\* No thread is inside WriteLock, in a write section or inside WriteUnlock.
NoWriter == \A w \in Threads : ~CalledWriteLock(w)

\* C13: while there is no writer, a thread inside ReadLock gets to the end of
\* it, whatever number of threads hold shared access, with no thread owed
\* more than the steps of the call it is in (so without any ReadUnlock being
\* called first); the wait ends otherwise only by a writer arriving.
C13_ReaderConcurrency ==
    \A t \in 1..BaseThreads :
        (pc[t] \in ReadLockPcs /\ NoWriter) ~> (InRead(t) \/ ~NoWriter)

\* C13 witness: all the threads hold shared access at once.
C13_Witness ==
    /\ \A t \in Threads : InRead(t) /\ HoldsShared(t)
    /\ ReadCounter = Cardinality(Threads)

\* C14: GetIsValid of a live object is true exactly while the object that
\* constructed its block (the parent of its group) has not been destroyed.
C14_ValidityTracking ==
    \A h \in DOMAIN objects :
        objects[h].alive => (GetIsValid(h) <=> parentOf[objects[h].IsValid] # 0)

Driving(c) == walk[c] = "driving"
Walking(p) == walk[p] = "walking"

\* C15: in both versions of ThreadCrossWalk no car is between the return of
\* CarStartCrossRoad and its CarStopCrossRoad while a pedestrian is between
\* the return of PedestrianStartCrossRoad and PedestrianStopCrossRoad; at most
\* one pedestrian is on the crossing at a time; and a CarStartCrossRoad called
\* after a pedestrian has taken the gate does not return before that
\* pedestrian's PedestrianStopCrossRoad.
C15_CrossWalkExclusion ==
    /\ \A c \in CarThreads, p \in PedThreads : ~(Driving(c) /\ Walking(p))
    /\ \A p \in PedThreads, q \in PedThreads : Walking(p) /\ Walking(q) => p = q
    /\ \A c \in CarThreads : Driving(c) => behind[c] = {}

\* Inside a WriteLock called with a read section open and no write section.
Upgrading(t) ==
    /\ op[t] = "WriteLock"
    /\ SizeGtZero(LocalThreadReadLockCounter[t])
    /\ LocalThreadWriteLockCounter[t] = 0

\* C16: a WriteLock called inside a read section has given up the shared hold
\* before it goes for the gate: from Rwmx.WriteLock() on, and whenever it owns
\* the gate, the thread is not counted in ReadCounter.  (The witness is the
\* execution in which another thread is in its write section meanwhile.)
C16_UpgradeReleasesShared ==
    \A t \in Threads :
        Upgrading(t) /\ (pc[t] \in WriteLockPcs \/ HoldsExclusive(t)) => ~HoldsShared(t)

\* C16 witness: the upgrader's ReadLock has returned, its WriteLock stands at
\* the gate, and another thread, whose WriteLock has returned, owns the gate.
C16_Witness ==
    \E t \in Threads : \E u \in Threads \ {t} :
        /\ Upgrading(t) /\ pc[t] = "wl_gate" /\ ~HoldsShared(t)
        /\ InWrite(u) /\ HoldsExclusive(u) /\ LocalThreadWriteLockCounter[u] = 1

\* Positions of a direct caller of ReadWriteMutex between the fetch_add of its
\* ReadLock and the fetch_sub of its ReadUnlock.
Counted(t) ==
    \/ pc[t] \in {"rl_rmu", "rl_gu"}
    \/ InRead(t)
    \/ pc[t] \in {"ru_rm", "ru_dec"}

\* C17: under paired use ReadCounter is never negative and equals the number
\* of threads whose ReadLock has done its fetch_add and whose ReadUnlock has
\* not done its fetch_sub yet, and ReadCounter changes only in a step of the
\* thread that owns ReadMutex, by one.
C17_ReadCounterBookkeeping ==
    /\ [](/\ ReadCounter >= 0
          /\ ReadCounter = Cardinality({t \in Threads : Counted(t)}))
    /\ [][ReadCounter' # ReadCounter =>
             /\ ReadMutex # 0 /\ ReadMutex' = ReadMutex
             /\ pc[ReadMutex] \in {"rl_inc", "ru_dec"}
             /\ pc'[ReadMutex] # pc[ReadMutex]
             /\ ReadCounter' \in {ReadCounter + 1, ReadCounter - 1}]_vars

\* C17 witness: two threads are counted while a third, inside ReadUnlock with
\* ReadMutex in its hand, has just taken itself out of the count.
C17_Witness ==
    /\ ReadCounter = 2
    /\ \E t \in Threads : pc[t] = "ru_load" /\ ReadMutex = t /\ ~Counted(t)

\* A ReadLock call that cannot take its next step: it stands at
\* WriteMutex.lock() or at ReadMutex.lock() and the mutex is locked.
ReadLockBlocked(t) ==
    \/ pc[t] = "rl_gate" /\ WriteMutex # 0
    \/ pc[t] = "rl_rm" /\ ReadMutex # 0

\* Another thread has just locked the gate (in WriteLock or in ReadLock).
GateTakenByOther(t) ==
    \E u \in Threads \ {t} : pc[u] \in {"wl_set", "rl_rm"} /\ WriteMutex = u

\* C18 as claimed: a ReadLock call is blocked only while another thread owns
\* the writer gate, and under fair scheduling, every writer calling
\* WriteUnlock in the end, every ReadLock call returns, whatever the other
\* threads go on calling.
C18_ReadLockProgress ==
    /\ [](\A t \in Threads : ReadLockBlocked(t) => WriteMutex \notin {0, t})
    /\ \A t \in 1..FairThreads : (pc[t] \in ReadLockPcs) ~> InRead(t)

\* C18 amended: a ReadLock call is blocked only while another thread owns the
\* writer gate or ReadMutex, and under fair scheduling it returns unless other
\* threads lock the gate again and again for ever.
C18_ReadLockProgressUnlessOvertaken ==
    /\ [](\A t \in Threads :
            ReadLockBlocked(t) => WriteMutex \notin {0, t} \/ ReadMutex \notin {0, t})
    /\ \A t \in 1..FairThreads :
          \/ []<>GateTakenByOther(t)
          \/ (pc[t] \in ReadLockPcs) ~> InRead(t)

\* C18 witness: a ReadLock stands at ReadMutex.lock(), the gate in its hand,
\* while another thread's ReadUnlock owns ReadMutex.
C18_Witness ==
    \E t \in Threads : \E u \in Threads \ {t} :
        /\ pc[t] = "rl_rm" /\ WriteMutex = t
        /\ ReadMutex = u /\ pc[u] \in {"ru_dec", "ru_load", "ru_loop", "ru_rmu"}

\* C19: a ReadLock or ReadUnlock of RecursiveReadWriteMutex called with write
\* counter > 0 is one step that changes neither counter of the thread nor any
\* state of the underlying lock and calls none of its methods, and the thread
\* owns the gate before and after.
C19_ReadInsideWriteNoOp ==
    [][\A t \in Threads :
          (/\ SizeGtZero(LocalThreadWriteLockCounter[t])
           /\ \/ stack'[t] = Append(stack[t], "R")
              \/ stack[t] # << >> /\ Top(stack[t]) = "R" /\ stack'[t] = Pop(stack[t]))
          => /\ UNCHANGED <<localVars, baseVars, holders>>
             /\ pc'[t] = "idle" /\ op'[t] = "none"
             /\ HoldsExclusive(t) /\ HoldsExclusive(t)']_vars

\* C19 witness: ReadLock has returned inside a write section: the thread owns
\* the gate, its read counter is 0 and ReadCounter does not count it.
C19_Witness ==
    \E t \in Threads :
        /\ pc[t] = "idle" /\ stack[t] = <<"W", "R">>
        /\ LocalThreadReadLockCounter[t] = 0 /\ LocalThreadWriteLockCounter[t] = 1
        /\ HoldsExclusive(t) /\ ~HoldsShared(t) /\ ReadCounter = 0

\* t is between calls with every bracket closed.
Balanced(t) == pc[t] = "idle" /\ op[t] = "none" /\ stack[t] = << >>

\* C20: whenever a thread has closed every bracket it opened, in whatever
\* order, both its counters are 0 and it holds neither shared nor exclusive
\* access on the underlying lock.
C20_BalancedReleases ==
    \A t \in Threads :
        Balanced(t) =>
            /\ LocalThreadReadLockCounter[t] = 0
            /\ LocalThreadWriteLockCounter[t] = 0
            /\ ~HoldsShared(t) /\ ~HoldsExclusive(t)

\* C21: ReadWriteMutex::WriteLock never returns while ReadCounter > 0: in the
\* step in which it returns (the store to IsCondVarWaiting is its last
\* statement) ReadCounter is 0, whatever made Cv.wait return.
C21_WriteLockPostcondition ==
    [][\A t \in Threads :
          pc[t] = "wl_clear" /\ pc'[t] # "wl_clear" => ReadCounter = 0 /\ ReadCounter' = 0]_vars

\* The thread is between calls with a bracket open on object i.
ReadOpenOn(i) == where = "idle" /\ nest[i] # << >> /\ ~IsOpen(nest[i], "W")
WriteOpenOn(i) == where = "idle" /\ IsOpen(nest[i], "W")
HoldersOf(i) == IF Rwmxs[i].holder THEN 1 ELSE 0

\* C22: for one thread using two RecursiveReadWriteMutex objects, a call on
\* one object leaves the underlying lock of the other as it is; whatever is
\* open on the other object, a read section open on an object makes the
\* thread a shared holder of that object's lock and a write section makes it
\* the owner of its gate; and ReadCounter of an object is never below the
\* number of its shared holders.
C22_InstanceIndependence ==
    /\ [](\A i \in Instances :
            /\ ReadOpenOn(i) => Rwmxs[i].holder
            /\ WriteOpenOn(i) => Rwmxs[i].WriteMutex = 1
            /\ Rwmxs[i].ReadCounter >= HoldersOf(i))
    /\ [][\A i \in Instances : \A j \in Instances \ {i} :
             nest'[i] # nest[i] => Rwmxs'[j] = Rwmxs[j]]_vars

\* Statements of ReadWriteMutex::ReadUnlock.
ReadUnlockPcs == {"ru_rm", "ru_dec", "ru_load", "ru_loop", "ru_notify", "ru_rmu"}

\* C23: under fair scheduling every ReadWriteMutex::ReadUnlock call returns:
\* its notify loop ends, also when the writer that set IsCondVarWaiting did
\* not have to wait and when further writers take the gate and set it again.
C23_ReadUnlockTerminates ==
    \A t \in 1..FairThreads : (pc[t] \in ReadUnlockPcs) ~> (pc[t] \notin ReadUnlockPcs)

\* The live handles that share block b.
HandlesOf(b) == {h \in DOMAIN objects : objects[h].alive /\ objects[h].Counter = b}

\* C24: the counter of a live block is the number of live handles that share
\* it, a block is freed when and only when its counter has reached 0 and then
\* no live handle refers to it, and no step of a constructor, of operator= or
\* of the destructor touches a block after it has been freed.
C24_BlockLifetime ==
    /\ \A b \in DOMAIN blocks :
          /\ blocks[b].state = "live" =>
                blocks[b].Counter = Cardinality(HandlesOf(b)) /\ blocks[b].Counter > 0
          /\ blocks[b].state = "freed" =>
                blocks[b].Counter = 0 /\ HandlesOf(b) = {}
    /\ usedAfterFree = {}

====
